---- MODULE Spec2Model ----
(***************************************************************************)
(* A model of the container orchestrator of testcontainers-node:           *)
(*   GenericContainerBuilder.build, GenericContainer (the fluent builder   *)
(*   and start()), StartedGenericContainer (stop, getMappedPort, exec)     *)
(*   and the DockerodeClient translation layer (fetchRepoTags, create).    *)
(*                                                                         *)
(* Strings are sequences of one-character strings, so that split(":"),     *)
(* toString() and template concatenation are computed, not assumed.        *)
(* Every await of the code is a suspension point: an action is the code    *)
(* that runs from the completion of one awaited call up to the issue of    *)
(* the next one.                                                           *)
(***************************************************************************)
EXTENDS Integers, Sequences, FiniteSets, TLC

(***************************************************************************)
(* Bounds of the model.                                                    *)
(***************************************************************************)
\* the size of the test explored: every call the test makes (configuration, build,
\* stop, getMappedPort, exec) counts one, and a start() call counts two
MaxApiCalls == 4

(***************************************************************************)
(* Values.                                                                 *)
(***************************************************************************)
\* an optional value: absent (undefined) or present
None == <<>>
Some(v) == <<v>>
IsSome(o) == o # <<>>
TheValue(o) == o[1]

\* string literals, as sequences of characters
StrApp == <<"a", "p", "p">>
StrLatest == <<"l", "a", "t", "e", "s", "t">>
StrOneDotO == <<"1", ".", "0">>
StrColon == <<":">>
StrEquals == <<"=">>
StrRw == <<"r", "w">>
StrWeb == <<"w", "e", "b">>
StrKey == <<"K">>
StrValA == <<"a">>
StrSrcDir == <<"/", "s">>
StrDstDir == <<"/", "t">>
StrRun == <<"r", "u", "n">>
StrHost == <<"l", "o", "c", "a", "l", "h", "o", "s", "t">>

\* Number.prototype.toString(): the decimal digits of a non-negative integer
DigitChar(d) ==
    CASE d = 0 -> "0" [] d = 1 -> "1" [] d = 2 -> "2" [] d = 3 -> "3" [] d = 4 -> "4"
      [] d = 5 -> "5" [] d = 6 -> "6" [] d = 7 -> "7" [] d = 8 -> "8" [] OTHER -> "9"

RECURSIVE NumberToString(_)
NumberToString(n) ==
    IF n < 10 THEN <<DigitChar(n)>>
    ELSE NumberToString(n \div 10) \o <<DigitChar(n % 10)>>

\* String.prototype.split(sep) for a one-character separator: the parts between
\* the separators, in order (always at least one part)
RECURSIVE SplitFrom(_, _, _)
SplitFrom(s, sep, cur) ==
    IF s = <<>> THEN <<cur>>
    ELSE IF Head(s) = sep THEN <<cur>> \o SplitFrom(Tail(s), sep, <<>>)
    ELSE SplitFrom(Tail(s), sep, Append(cur, Head(s)))

Split(s, sep) == SplitFrom(s, sep, <<>>)

\* RepoTag: an image name and a tag
RepoTag(image, tag) == [image |-> image, tag |-> tag]
RepoTagEquals(a, b) == a.image = b.image /\ a.tag = b.tag
RepoTagToString(rt) == rt.image \o StrColon \o rt.tag

\* the tag the GenericContainer constructor uses when none is given
DefaultTag == StrLatest

(***************************************************************************)
(* State.                                                                  *)
(***************************************************************************)
VARIABLES
    builders,       \* GenericContainer objects: id -> the fields of lines 68-78
    stratTimeout,   \* the startup timeout held by each wait strategy object the caller made
    calls,          \* the start() calls made so far, each with its locals and position
    log,            \* per start() call: the collaborator calls issued and returned, in order
    images,         \* the engine's image listing (dockerode.listImages)
    containers,     \* the engine's containers: status, the create request, the name
    handles,        \* StartedGenericContainer objects, by the start() call that returned them
    build,          \* the GenericContainerBuilder.build() call: locals and position
    uuidDraws,      \* the identifiers drawn from the Uuid generator, in order
    ret,            \* what the synchronous call that has just run returned
    nCalls          \* the size of the test so far

vars == <<builders, stratTimeout, calls, log, images, containers, handles, build,
          uuidDraws, ret, nCalls>>

\* no synchronous call has just returned
NoReturn == [op |-> "none"]

\* the builder made by the test (new GenericContainer("app")) and the one build() makes
DirectBuilder == 1
BuiltBuilder == 2

\* private startupTimeout = new Duration(60_000, MILLISECONDS)
DefaultStartupTimeout == 60000

\* GenericContainer's field initialisers and constructor
NewGenericContainer(image, tag) ==
    [ repoTag |-> RepoTag(image, tag),
      env |-> <<>>,
      ports |-> <<>>,
      cmd |-> <<>>,
      bindMounts |-> <<>>,
      name |-> None,
      tmpFs |-> <<>>,
      waitStrategy |-> None,
      startupTimeout |-> DefaultStartupTimeout ]

\* the fields of the request state
BuilderFields ==
    {"repoTag", "env", "ports", "cmd", "bindMounts", "name", "tmpFs", "waitStrategy",
     "startupTimeout"}

(***************************************************************************)
(* The configuration calls of GenericContainer.  Each assigns one field    *)
(* and returns this.                                                       *)
(***************************************************************************)
\* the builders the caller holds a reference to
HeldBuilders == DOMAIN builders \ (IF build.pc = "returned" THEN {} ELSE {BuiltBuilder})

\* env[key] = value on an object whose keys keep their insertion order
EnvSet(env, key, value) ==
    IF \E i \in 1..Len(env) : env[i][1] = key
    THEN [i \in 1..Len(env) |-> IF env[i][1] = key THEN <<key, value>> ELSE env[i]]
    ELSE Append(env, <<key, value>>)

\* the part every configuration call shares: the field assignment and `return this`
Configure(b, op, field, value) ==
    /\ nCalls < MaxApiCalls
    /\ b \in HeldBuilders
    /\ builders' = [builders EXCEPT ![b][field] = value]
    /\ ret' = [op |-> op, on |-> b, value |-> b]
    /\ nCalls' = nCalls + 1
    /\ UNCHANGED <<stratTimeout, calls, log, images, containers, handles, build,
                   uuidDraws>>

WithCmd(b, cmd) == Configure(b, "withCmd", "cmd", cmd)

WithName(b, name) == Configure(b, "withName", "name", Some(name))

WithEnv(b, key, value) ==
    Configure(b, "withEnv", "env", EnvSet(builders[b].env, key, value))

\* a withTmpFs that assigns the command field
WithTmpFsIntoCmd(b, tmpFs) == Configure(b, "withTmpFs", "cmd", tmpFs)

WithTmpFs(b, tmpFs) == Configure(b, "withTmpFs", "tmpFs", tmpFs)

WithExposedPorts(b, ports) == Configure(b, "withExposedPorts", "ports", ports)

WithBindMount(b, source, target, bindMode) ==
    Configure(b, "withBindMount", "bindMounts",
              Append(builders[b].bindMounts,
                     [source |-> source, target |-> target, bindMode |-> bindMode]))

WithStartupTimeout(b, startupTimeout) ==
    Configure(b, "withStartupTimeout", "startupTimeout", startupTimeout)

WithWaitStrategy(b, waitStrategy) ==
    Configure(b, "withWaitStrategy", "waitStrategy", Some(waitStrategy))

(***************************************************************************)
(* DockerodeClient: the translation to the engine's API.                   *)
(***************************************************************************)
\* the value of a destructured array element that does not exist
Undefined == <<"undefined">>

\* isDanglingImage: image.RepoTags === null
IsDanglingImage(image) == image.RepoTags = None

\* imageRepoTag => { [imageName, tag] = imageRepoTag.split(":"); new RepoTag(imageName, tag) }
ParseRepoTag(imageRepoTag) ==
    LET parts == Split(imageRepoTag, ":")
    IN  RepoTag(parts[1], IF Len(parts) >= 2 THEN parts[2] ELSE Undefined)

\* fetchRepoTags: the reduce over the listing
RECURSIVE FetchRepoTags(_)
FetchRepoTags(listing) ==
    IF listing = <<>> THEN <<>>
    ELSE LET image == listing[Len(listing)]
             repoTags == FetchRepoTags(SubSeq(listing, 1, Len(listing) - 1))
         IN  IF IsDanglingImage(image) THEN repoTags
             ELSE repoTags \o [i \in 1..Len(TheValue(image.RepoTags)) |->
                                  ParseRepoTag(TheValue(image.RepoTags)[i])]

\* getEnv: one "key=value" string per entry
GetEnv(env) == [i \in 1..Len(env) |-> env[i][1] \o StrEquals \o env[i][2]]

\* BoundPorts.iterator(): the (internal, host) pairs in insertion order
BoundPortsIterator(boundPorts) == boundPorts

\* a getExposedPorts that exposes the first port of the map alone
GetExposedPortsFirst(boundPorts) ==
    LET it == BoundPortsIterator(boundPorts)
    IN  [k \in {NumberToString(it[i][1]) : i \in 1..(IF Len(it) > 0 THEN 1 ELSE 0)} |-> <<>>]

\* getExposedPorts: an object with one key per internal port
GetExposedPorts(boundPorts) ==
    LET it == BoundPortsIterator(boundPorts)
    IN  [k \in {NumberToString(it[i][1]) : i \in 1..Len(it)} |-> <<>>]

\* a getPortBindings that publishes each port on the host port of the same number
GetPortBindingsSameNumber(boundPorts) ==
    LET it == BoundPortsIterator(boundPorts)
    IN  [k \in {NumberToString(it[i][1]) : i \in 1..Len(it)} |-> <<[HostPort |-> k]>>]

\* getPortBindings: per internal port, a one-element list holding the host port
GetPortBindings(boundPorts) ==
    LET it == BoundPortsIterator(boundPorts)
        last(k) == CHOOSE i \in 1..Len(it) :
                      /\ NumberToString(it[i][1]) = k
                      /\ \A j \in 1..Len(it) : NumberToString(it[j][1]) = k => j <= i
    IN  [k \in {NumberToString(it[i][1]) : i \in 1..Len(it)} |->
            <<[HostPort |-> NumberToString(it[last(k)][2])]>>]

\* getBindMounts: "source:target:bindMode"
GetBindMounts(bindMounts) ==
    [i \in 1..Len(bindMounts) |->
        bindMounts[i].source \o StrColon \o bindMounts[i].target \o StrColon
            \o bindMounts[i].bindMode]

\* create: the request handed to dockerode.createContainer
CreateRequest(options) ==
    [ name |-> options.name,
      Image |-> RepoTagToString(options.repoTag),
      Env |-> GetEnv(options.env),
      ExposedPorts |-> GetExposedPorts(options.boundPorts),
      Cmd |-> options.cmd,
      HostConfig |-> [ PortBindings |-> GetPortBindings(options.boundPorts),
                       Binds |-> GetBindMounts(options.bindMounts),
                       Tmpfs |-> options.tmpFs ] ]

\* getHost
GetHost == StrHost

(***************************************************************************)
(* The port allocator and the port map.                                    *)
(***************************************************************************)
\* the host ports the operating system may hand out
HostPorts == {32768, 32769}

\* BoundPorts.setBinding on a map that keeps insertion order
SetBinding(boundPorts, internal, host) ==
    IF \E i \in 1..Len(boundPorts) : boundPorts[i][1] = internal
    THEN [i \in 1..Len(boundPorts) |->
            IF boundPorts[i][1] = internal THEN <<internal, host>> ELSE boundPorts[i]]
    ELSE Append(boundPorts, <<internal, host>>)

\* BoundPorts.getBinding: the host port, or an error for a port never bound
GetBinding(boundPorts, port) ==
    IF \E i \in 1..Len(boundPorts) : boundPorts[i][1] = port
    THEN [ok |-> TRUE,
          value |-> boundPorts[CHOOSE i \in 1..Len(boundPorts) : boundPorts[i][1] = port][2]]
    ELSE [ok |-> FALSE, error |-> "NotBoundError"]

RECURSIVE BindAll(_, _, _)
BindAll(boundPorts, ports, hosts) ==
    IF ports = <<>> THEN boundPorts
    ELSE BindAll(SetBinding(boundPorts, Head(ports), Head(hosts)), Tail(ports), Tail(hosts))

\* PortBinder.bind: one free host port per requested port, in request order, none
\* claimed twice within the call
PortBinderBind(ports) ==
    { BindAll(<<>>, ports, hosts) :
        hosts \in { h \in [1..Len(ports) -> HostPorts] :
                       \A i, j \in 1..Len(ports) : i # j => h[i] # h[j] } }

(***************************************************************************)
(* The wait strategies.                                                     *)
(***************************************************************************)
\* the wait strategy objects the caller may hand to withWaitStrategy
CallerStrategies == {"custom"}

\* the time one unsuccessful readiness check takes, suspension included
PollInterval == 30000

\* a getWaitStrategy that ignores the configured strategy
GetWaitStrategyAlwaysDefault(builder, container) ==
    [kind |-> "HostPortWaitStrategy", object |-> None,
     hostPortCheck |-> Some([host |-> GetHost]),
     internalPortCheck |-> Some([container |-> container])]

\* getWaitStrategy: the configured strategy, or a new composite of a host-port
\* check and an internal-port check
GetWaitStrategy(builder, container) ==
    IF IsSome(builder.waitStrategy)
    THEN [kind |-> "configured", object |-> builder.waitStrategy,
          hostPortCheck |-> None, internalPortCheck |-> None]
    ELSE [kind |-> "HostPortWaitStrategy", object |-> None,
          hostPortCheck |-> Some([host |-> GetHost]),
          internalPortCheck |-> Some([container |-> container])]

\* waitStrategy.withStartupTimeout(t): the strategy object keeps t (a composite made
\* for this call keeps it in the call's own record)
WithStrategyTimeout(waitStrategy, t) ==
    IF waitStrategy.kind = "configured"
    THEN [stratTimeout EXCEPT ![TheValue(waitStrategy.object)] = t]
    ELSE stratTimeout

(***************************************************************************)
(* GenericContainer.start().                                                *)
(***************************************************************************)
Event(ev, op) == [ev |-> ev, op |-> op]

\* the locals of a start() call that has just been invoked, and the builder's fields
\* as the invocation found them
NewCall(b) ==
    [ builder |-> b,
      invoked |-> builders[b],
      pc |-> "fetchRepoTags",
      error |-> None,
      repoTags |-> None,
      ports |-> <<>>,
      boundPorts |-> <<>>,
      request |-> None,
      container |-> 0,
      inspectResult |-> None,
      wait |-> None ]

\* a comparison by image name alone
HasImageLocally(builder, repoTags) ==
    \E i \in 1..Len(repoTags) : repoTags[i].image = builder.repoTag.image

\* hasRepoTagLocally: some listed reference equals this.repoTag
HasRepoTagLocally(builder, repoTags) ==
    \E i \in 1..Len(repoTags) : RepoTagEquals(repoTags[i], builder.repoTag)

\* if (!(await this.hasRepoTagLocally())) await this.dockerClient.pull(this.repoTag)
StepAfterListing(hasLocally) == IF hasLocally THEN "bind" ELSE "pull"

\* a start() that inspects the container before it starts it
NextStepInspectFirst(op) ==
    CASE op = "pull" -> "bind"
      [] op = "bind" -> "create"
      [] op = "create" -> "inspect"
      [] op = "inspect" -> "start"
      [] op = "start" -> "waitUntilReady"
      [] op = "waitUntilReady" -> "resolved"

\* the statement start() goes on with once the awaited call op has resolved
NextStep(op) ==
    CASE op = "pull" -> "bind"
      [] op = "bind" -> "create"
      [] op = "create" -> "start"
      [] op = "start" -> "inspect"
      [] op = "inspect" -> "waitUntilReady"
      [] op = "waitUntilReady" -> "resolved"

\* a call whose rejection is swallowed
AwaitedSwallowed(ok, next) == next

\* an awaited call that settles: the code goes on when it resolved, and the async
\* function rejects when it rejected
Awaited(ok, next) == IF ok THEN next ELSE "rejected"

\* a call that is issued again when it has failed
SettleRetrying(p, op, ok, c) ==
    /\ calls' = IF ok THEN [calls EXCEPT ![p] = c] ELSE calls
    /\ log' = [log EXCEPT ![p] =
                 Append(@, Event(IF ok THEN "return" ELSE "throw", op))
                    \o (IF ~ok THEN <<Event("call", op)>>
                        ELSE IF c.pc \in {"rejected", "resolved"} THEN <<>>
                        ELSE <<Event("call", c.pc)>>)]

\* call p after the awaited call op has settled: it goes on with the locals and the
\* position of c, or it has rejected with the error of op
Settle(p, op, ok, c) ==
    LET next == Awaited(ok, c.pc)
    IN  /\ calls' = IF next = "rejected"
                    THEN [calls EXCEPT ![p].pc = "rejected", ![p].error = Some(op)]
                    ELSE [calls EXCEPT ![p] = c]
        /\ log' = [log EXCEPT ![p] =
                     Append(@, Event(IF ok THEN "return" ELSE "throw", op))
                        \o (IF next \in {"rejected", "resolved"} THEN <<>>
                            ELSE <<Event("call", next)>>)]

\* the engine's listing once it holds an image tagged t: unchanged when some image
\* already carries the tag
EngineAddImage(listing, t) ==
    IF \E i \in 1..Len(listing) :
          /\ IsSome(listing[i].RepoTags)
          /\ \E j \in 1..Len(TheValue(listing[i].RepoTags)) : TheValue(listing[i].RepoTags)[j] = t
    THEN listing
    ELSE Append(listing, [RepoTags |-> Some(<<t>>)])

\* the caller invokes start() on builder b: the code runs up to the listing request
StartInvoke(b) ==
    /\ nCalls + 2 <= MaxApiCalls
    /\ b \in HeldBuilders
    /\ calls' = Append(calls, NewCall(b))
    /\ log' = Append(log, <<Event("call", "fetchRepoTags")>>)
    /\ nCalls' = nCalls + 2
    /\ ret' = NoReturn
    /\ UNCHANGED <<builders, stratTimeout, images, containers, handles, build,
                   uuidDraws>>

\* the listing settles: pull when the reference is not listed, bind otherwise
ListReturn(p, ok) ==
    /\ calls[p].pc = "fetchRepoTags"
    /\ LET builder == builders[calls[p].builder]
           repoTags == FetchRepoTags(images)
           next == StepAfterListing(HasRepoTagLocally(builder, repoTags))
       IN  Settle(p, "fetchRepoTags", ok,
                  [calls[p] EXCEPT !.pc = next,
                                   !.repoTags = IF ok THEN Some(repoTags) ELSE None,
                                   !.ports = IF next = "bind" THEN builder.ports ELSE @])
    /\ ret' = NoReturn
    /\ UNCHANGED <<builders, stratTimeout, images, containers, handles, build,
                   uuidDraws, nCalls>>

\* the pull settles; the engine lists the pulled reference from then on
PullReturn(p, ok) ==
    /\ calls[p].pc = "pull"
    /\ LET builder == builders[calls[p].builder]
       IN  /\ Settle(p, "pull", ok,
                     [calls[p] EXCEPT !.pc = NextStep("pull"), !.ports = builder.ports])
           /\ images' = IF ok THEN EngineAddImage(images, RepoTagToString(builder.repoTag))
                        ELSE images
    /\ ret' = NoReturn
    /\ UNCHANGED <<builders, stratTimeout, containers, handles, build,
                   uuidDraws, nCalls>>

\* the options start() passes to dockerClient.create
CreateOptions(builder, boundPorts) ==
    [ repoTag |-> builder.repoTag,
      env |-> builder.env,
      cmd |-> builder.cmd,
      bindMounts |-> builder.bindMounts,
      tmpFs |-> builder.tmpFs,
      boundPorts |-> boundPorts,
      name |-> builder.name ]

\* the port binding settles: create is requested with the bound ports
BindReturn(p, ok) ==
    /\ calls[p].pc = "bind"
    /\ ok => PortBinderBind(calls[p].ports) # {}
    /\ \E boundPorts \in IF ok THEN PortBinderBind(calls[p].ports) ELSE {<<>>} :
          Settle(p, "bind", ok,
                 [calls[p] EXCEPT
                    !.pc = NextStep("bind"),
                    !.boundPorts = boundPorts,
                    !.request = Some(CreateRequest(
                                  CreateOptions(builders[calls[p].builder], boundPorts)))])
    /\ ret' = NoReturn
    /\ UNCHANGED <<builders, stratTimeout, images, containers, handles, build,
                   uuidDraws, nCalls>>

\* the name the engine gives a container: the requested one, or one of its own
EngineName(request, id) ==
    IF IsSome(request.name) THEN TheValue(request.name) ELSE <<"c">> \o NumberToString(id)

\* create settles: the engine holds a new container; its start is requested
CreateReturn(p, ok) ==
    /\ calls[p].pc = "create"
    /\ LET id == Len(containers) + 1
           request == TheValue(calls[p].request)
       IN  /\ Settle(p, "create", ok,
                     [calls[p] EXCEPT !.pc = NextStep("create"), !.container = id])
           /\ containers' = IF ok
                            THEN Append(containers,
                                        [status |-> "created", request |-> request,
                                         name |-> EngineName(request, id)])
                            ELSE containers
    /\ ret' = NoReturn
    /\ UNCHANGED <<builders, stratTimeout, images, handles, build,
                   uuidDraws, nCalls>>

\* a start() that removes the container when the engine start failed
EngineStartReturnRollback(p, ok) ==
    /\ calls[p].pc = "start"
    /\ Settle(p, "start", ok, [calls[p] EXCEPT !.pc = NextStep("start")])
    /\ containers' = [containers EXCEPT ![calls[p].container].status =
                         IF ok THEN "running" ELSE "removed"]
    /\ ret' = NoReturn
    /\ UNCHANGED <<builders, stratTimeout, images, handles, build,
                   uuidDraws, nCalls>>

\* the engine start settles: the container runs; its inspection is requested
EngineStartReturn(p, ok) ==
    /\ calls[p].pc = "start"
    /\ Settle(p, "start", ok, [calls[p] EXCEPT !.pc = NextStep("start")])
    /\ containers' = IF ok
                     THEN [containers EXCEPT ![calls[p].container].status = "running"]
                     ELSE containers
    /\ ret' = NoReturn
    /\ UNCHANGED <<builders, stratTimeout, images, handles, build,
                   uuidDraws, nCalls>>

\* new ContainerState(inspectResult)
ContainerState(inspectResult) == [inspectResult |-> inspectResult]

\* waitForContainer up to its await: the strategy is chosen, given the startup timeout,
\* and waitUntilReady(container, containerState, boundPorts) begins
WaitUntilReadyCall(builder, container, containerState, boundPorts) ==
    [ strategy |-> GetWaitStrategy(builder, container),
      timeout |-> builder.startupTimeout,
      container |-> container,
      containerState |-> containerState,
      boundPorts |-> boundPorts,
      elapsed |-> 0 ]

\* the inspection settles: the readiness wait begins
InspectReturn(p, ok) ==
    /\ calls[p].pc = "inspect"
    /\ LET builder == builders[calls[p].builder]
           container == calls[p].container
           inspectResult == [name |-> containers[container].name,
                             status |-> containers[container].status]
           wait == WaitUntilReadyCall(builder, container, ContainerState(inspectResult),
                                      calls[p].boundPorts)
       IN  /\ Settle(p, "inspect", ok,
                     [calls[p] EXCEPT !.pc = NextStep("inspect"),
                                      !.inspectResult = Some(inspectResult),
                                      !.wait = Some(wait)])
           /\ stratTimeout' = IF ok THEN WithStrategyTimeout(wait.strategy, wait.timeout)
                              ELSE stratTimeout
    /\ ret' = NoReturn
    /\ UNCHANGED <<builders, images, containers, handles, build,
                   uuidDraws, nCalls>>

\* a handle that holds the first container the engine created, whichever call made it
StartedGenericContainerOfFirst(container, host, boundPorts, name) ==
    [ container |-> 1,
      host |-> host,
      boundPorts |-> boundPorts,
      name |-> name,
      stopPc |-> "none",
      options |-> None,
      resolvedOptions |-> None,
      stopLog |-> <<>> ]

\* new StartedGenericContainer(container, host, boundPorts, name, dockerClient)
StartedGenericContainer(container, host, boundPorts, name) ==
    [ container |-> container,
      host |-> host,
      boundPorts |-> boundPorts,
      name |-> name,
      stopPc |-> "none",
      options |-> None,
      resolvedOptions |-> None,
      stopLog |-> <<>> ]

\* a start() that returns the handle whatever the wait's outcome
WaitResultSwallowed(ready) == NextStep("waitUntilReady")

\* await this.waitForContainer(...): start() goes on to return the handle when the
\* wait succeeded and rejects when it failed
WaitResult(ready) == Awaited(ready, NextStep("waitUntilReady"))

\* a wait that starts over when its timeout has elapsed
WaitPollRestarting(p, ready) ==
    /\ calls[p].pc = "waitUntilReady"
    /\ LET wait == TheValue(calls[p].wait)
           elapsed == wait.elapsed + PollInterval
       IN  IF ~ready
           THEN /\ calls' = [calls EXCEPT ![p].wait =
                      Some([wait EXCEPT !.elapsed = IF elapsed < wait.timeout
                                                     THEN elapsed ELSE 0])]
                /\ UNCHANGED <<log, handles>>
           ELSE /\ calls' = [calls EXCEPT ![p].pc = "resolved"]
                /\ log' = [log EXCEPT ![p] = Append(@, Event("return", "waitUntilReady"))]
                /\ handles' = handles @@
                      (p :> StartedGenericContainer(calls[p].container, GetHost,
                                calls[p].boundPorts,
                                TheValue(calls[p].inspectResult).name))
    /\ ret' = NoReturn
    /\ UNCHANGED <<builders, stratTimeout, images, containers, build,
                   uuidDraws, nCalls>>

\* one readiness check of the running wait: ready, or not yet; the wait fails once
\* the startup timeout has elapsed.  When it succeeds start() returns the handle.
WaitPoll(p, ready) ==
    /\ calls[p].pc = "waitUntilReady"
    /\ LET wait == TheValue(calls[p].wait)
           elapsed == wait.elapsed + PollInterval
           again == ~ready /\ elapsed < wait.timeout
           next == WaitResult(ready)
       IN  IF again
           THEN /\ calls' = [calls EXCEPT ![p].wait = Some([wait EXCEPT !.elapsed = elapsed])]
                /\ UNCHANGED <<log, handles>>
           ELSE /\ calls' = IF next = "rejected"
                            THEN [calls EXCEPT ![p].pc = "rejected",
                                               ![p].error = Some("waitUntilReady")]
                            ELSE [calls EXCEPT ![p].pc = next]
                /\ log' = [log EXCEPT ![p] =
                             Append(@, Event(IF ready THEN "return" ELSE "throw",
                                             "waitUntilReady"))]
                /\ handles' =
                     IF next = "resolved"
                     THEN handles @@
                          (p :> StartedGenericContainer(calls[p].container, GetHost,
                                    calls[p].boundPorts,
                                    TheValue(calls[p].inspectResult).name))
                     ELSE handles
    /\ ret' = NoReturn
    /\ UNCHANGED <<builders, stratTimeout, images, containers, build,
                   uuidDraws, nCalls>>

(***************************************************************************)
(* StartedGenericContainer.                                                 *)
(***************************************************************************)
\* DEFAULT_STOP_OPTIONS
DefaultStopOptions == [timeout |-> 10000, removeVolumes |-> FALSE]

\* the options a caller may pass to stop(): any subset of the fields
StopOptionChoices ==
    { [f \in D |-> IF f = "timeout" THEN 0 ELSE TRUE] : D \in SUBSET {"timeout", "removeVolumes"} }

\* the spread written the other way round: { ...options, ...DEFAULT_STOP_OPTIONS }
ResolveStopOptionsDefaultsLast(options) ==
    [f \in DOMAIN DefaultStopOptions \cup DOMAIN options |->
        IF f \in DOMAIN DefaultStopOptions THEN DefaultStopOptions[f] ELSE options[f]]

\* { ...DEFAULT_STOP_OPTIONS, ...options }
ResolveStopOptions(options) ==
    [f \in DOMAIN DefaultStopOptions \cup DOMAIN options |->
        IF f \in DOMAIN options THEN options[f] ELSE DefaultStopOptions[f]]

StopEvent(ev, op, args) == [ev |-> ev, op |-> op, args |-> args]

\* stop(options) up to its first await: container.stop({ timeout }) is requested
Stop(p, options) ==
    /\ p \in DOMAIN handles
    /\ handles[p].stopPc = "none"
    /\ nCalls < MaxApiCalls
    /\ nCalls' = nCalls + 1
    /\ LET resolvedOptions == ResolveStopOptions(options)
       IN  handles' = [handles EXCEPT
              ![p].stopPc = "stop",
              ![p].options = Some(options),
              ![p].resolvedOptions = Some(resolvedOptions),
              ![p].stopLog = <<StopEvent("call", "stop",
                                         [timeout |-> resolvedOptions["timeout"]])>>]
    /\ ret' = NoReturn
    /\ UNCHANGED <<builders, stratTimeout, calls, log, images, containers, build,
                   uuidDraws>>

\* container.stop settles: container.remove({ removeVolumes }) is requested
StopReturn(p, ok) ==
    /\ p \in DOMAIN handles
    /\ handles[p].stopPc = "stop"
    /\ LET resolvedOptions == TheValue(handles[p].resolvedOptions)
           next == Awaited(ok, "remove")
       IN  handles' = [handles EXCEPT
              ![p].stopPc = next,
              ![p].stopLog =
                 IF next = "rejected"
                 THEN Append(@, StopEvent(IF ok THEN "return" ELSE "throw", "stop", <<>>))
                 ELSE @ \o <<StopEvent("return", "stop", <<>>),
                             StopEvent("call", "remove",
                                 [removeVolumes |-> resolvedOptions["removeVolumes"]])>>]
    /\ containers' = IF ok
                     THEN [containers EXCEPT ![handles[p].container].status = "stopped"]
                     ELSE containers
    /\ ret' = NoReturn
    /\ UNCHANGED <<builders, stratTimeout, calls, log, images, build,
                   uuidDraws, nCalls>>

\* container.remove settles: new StoppedGenericContainer() is returned
RemoveReturn(p, ok) ==
    /\ p \in DOMAIN handles
    /\ handles[p].stopPc = "remove"
    /\ handles' = [handles EXCEPT
          ![p].stopPc = Awaited(ok, "stopped"),
          ![p].stopLog = Append(@, StopEvent(IF ok THEN "return" ELSE "throw", "remove", <<>>))]
    /\ containers' = IF ok
                     THEN [containers EXCEPT ![handles[p].container].status = "removed"]
                     ELSE containers
    /\ ret' = NoReturn
    /\ UNCHANGED <<builders, stratTimeout, calls, log, images, build,
                   uuidDraws, nCalls>>

\* getMappedPort(port): this.boundPorts.getBinding(port)
GetMappedPort(p, port) ==
    /\ p \in DOMAIN handles
    /\ nCalls < MaxApiCalls
    /\ ret' = [op |-> "getMappedPort", on |-> p, arg |-> port,
               value |-> GetBinding(handles[p].boundPorts, port)]
    /\ nCalls' = nCalls + 1
    /\ UNCHANGED <<builders, stratTimeout, calls, log, images, containers, handles, build,
                   uuidDraws>>

\* the engine runs a command only in a container that is running
EngineCanExec(container) == containers[container].status = "running"

\* exec(command): this.dockerClient.exec(this.container, command), taken as one step;
\* the engine may fail it, and refuses it for a container that is not running
Exec(p, command, ok) ==
    /\ p \in DOMAIN handles
    /\ nCalls < MaxApiCalls
    /\ ok => EngineCanExec(handles[p].container)
    /\ ret' = [op |-> "exec", on |-> p, arg |-> command,
               value |-> IF ok THEN [ok |-> TRUE, value |-> [output |-> command, exitCode |-> 0]]
                         ELSE [ok |-> FALSE, error |-> "CollaboratorError"]]
    /\ nCalls' = nCalls + 1
    /\ UNCHANGED <<builders, stratTimeout, calls, log, images, containers, handles, build,
                   uuidDraws>>

(***************************************************************************)
(* GenericContainerBuilder.build().                                         *)
(***************************************************************************)
\* Uuid.nextUuid(): an identifier not drawn before
NextUuid(drawn) == <<"u">> \o NumberToString(Len(drawn) + 1)

\* build() up to its first await: two identifiers are drawn, the image name and then
\* the tag, and the image build is requested
BuildInvoke ==
    /\ build.pc = "idle"
    /\ nCalls < MaxApiCalls
    /\ nCalls' = nCalls + 1
    /\ LET image == NextUuid(uuidDraws)
           tag == NextUuid(Append(uuidDraws, image))
       IN  /\ uuidDraws' = uuidDraws \o <<image, tag>>
           /\ build' = [build EXCEPT
                  !.pc = "buildImage",
                  !.repoTag = Some(RepoTag(image, tag)),
                  !.log = <<StopEvent("call", "buildImage", RepoTag(image, tag))>>]
    /\ ret' = NoReturn
    /\ UNCHANGED <<builders, stratTimeout, calls, log, images, containers, handles>>

\* the image build settles (the engine lists the built reference, or does not): the
\* container is constructed and the listing is requested
BuildImageReturn(ok, listed) ==
    /\ build.pc = "buildImage"
    /\ LET repoTag == TheValue(build.repoTag)
           next == Awaited(ok, "fetchRepoTags")
       IN  /\ build' = [build EXCEPT
                  !.pc = next,
                  !.error = IF next = "rejected" THEN Some("buildImage") ELSE None,
                  !.log = IF next = "rejected"
                          THEN Append(@, StopEvent(IF ok THEN "return" ELSE "throw",
                                                   "buildImage", <<>>))
                          ELSE @ \o <<StopEvent("return", "buildImage", <<>>),
                                      StopEvent("call", "fetchRepoTags", <<>>)>>]
           /\ builders' = IF next = "rejected" THEN builders
                          ELSE builders @@
                               (BuiltBuilder :> NewGenericContainer(repoTag.image, repoTag.tag))
           /\ images' = IF ok /\ listed
                        THEN EngineAddImage(images, RepoTagToString(repoTag))
                        ELSE images
    /\ ret' = NoReturn
    /\ UNCHANGED <<stratTimeout, calls, log, containers, handles,
                   uuidDraws, nCalls>>

\* a build() that returns the container without the check
BuildVerdictUnchecked(hasLocally) == "returned"

\* if (!(await container.hasRepoTagLocally())) throw new Error("Failed to build image")
BuildVerdict(hasLocally) == IF hasLocally THEN "returned" ELSE "rejected"

\* the listing settles: the container is returned when its reference is listed
BuildListReturn(ok) ==
    /\ build.pc = "fetchRepoTags"
    /\ LET repoTags == FetchRepoTags(images)
           next == Awaited(ok, BuildVerdict(HasRepoTagLocally(builders[BuiltBuilder], repoTags)))
       IN  build' = [build EXCEPT
              !.pc = next,
              !.repoTags = IF ok THEN Some(repoTags) ELSE None,
              !.error = IF next = "returned" THEN None
                        ELSE IF ok THEN Some("Failed to build image")
                        ELSE Some("fetchRepoTags"),
              !.log = Append(@, StopEvent(IF ok THEN "return" ELSE "throw",
                                          "fetchRepoTags", <<>>))]
    /\ ret' = NoReturn
    /\ UNCHANGED <<builders, stratTimeout, calls, log, images, containers, handles,
                   uuidDraws, nCalls>>

(***************************************************************************)
(* The specification.                                                       *)
(***************************************************************************)
\* an image without tag information, and images with tags
DanglingImage == [RepoTags |-> None]
AppImages == [RepoTags |-> Some(<<StrApp \o StrColon \o StrLatest, StrApp \o StrColon \o StrOneDotO>>)]
OtherImage == [RepoTags |-> Some(<<StrApp \o StrColon \o StrOneDotO>>)]

\* what the engine may list when the test begins
InitialListings == { <<DanglingImage, OtherImage>>, <<DanglingImage, AppImages>> }

\* the timeout a wait strategy object holds when the caller has made it
StrategyOwnTimeout == 10000

Init ==
    /\ builders = (DirectBuilder :> NewGenericContainer(StrApp, DefaultTag))
    /\ stratTimeout = [s \in CallerStrategies |-> StrategyOwnTimeout]
    /\ calls = <<>>
    /\ log = <<>>
    /\ images \in InitialListings
    /\ containers = <<>>
    /\ handles = <<>>
    /\ build = [pc |-> "idle", repoTag |-> None, repoTags |-> None, error |-> None,
                log |-> <<>>]
    /\ uuidDraws = <<>>
    /\ ret = NoReturn
    /\ nCalls = 0

\* the arguments the configuration calls are explored with
PortLists == { <<80, 443>>, <<80, 80>> }
QueriedPorts == {80, 8080}

ConfigNext ==
    \E b \in DOMAIN builders :
        \/ WithCmd(b, <<StrRun>>)
        \/ WithName(b, StrWeb)
        \/ WithEnv(b, StrKey, StrValA)
        \/ WithTmpFs(b, <<<<StrDstDir, StrRw>>>>)
        \/ \E ports \in PortLists : WithExposedPorts(b, ports)
        \/ WithBindMount(b, StrSrcDir, StrDstDir, StrRw)
        \/ WithStartupTimeout(b, PollInterval)
        \/ \E s \in CallerStrategies : WithWaitStrategy(b, s)

StartNext ==
    \/ \E b \in DOMAIN builders : StartInvoke(b)
    \/ \E p \in 1..Len(calls), ok \in BOOLEAN :
          \/ ListReturn(p, ok)
          \/ PullReturn(p, ok)
          \/ BindReturn(p, ok)
          \/ CreateReturn(p, ok)
          \/ EngineStartReturn(p, ok)
          \/ InspectReturn(p, ok)
          \/ WaitPoll(p, ok)

HandleNext ==
    \E p \in 1..Len(calls) :
        \/ \E options \in StopOptionChoices : Stop(p, options)
        \/ \E ok \in BOOLEAN : StopReturn(p, ok) \/ RemoveReturn(p, ok)
        \/ \E port \in QueriedPorts : GetMappedPort(p, port)
        \/ \E ok \in BOOLEAN : Exec(p, <<StrRun>>, ok)

BuildNext ==
    \/ BuildInvoke
    \/ \E ok, listed \in BOOLEAN : BuildImageReturn(ok, listed)
    \/ \E ok \in BOOLEAN : BuildListReturn(ok)

Next == ConfigNext \/ StartNext \/ HandleNext \/ BuildNext

Spec == Init /\ [][Next]_vars

\* the start() calls a test of the explored size can make
MaxStarts == MaxApiCalls \div 2

\* what start() call p does when the call it awaits settles, or its wait checks again
StartStep(p) ==
    /\ p \in 1..Len(calls)
    /\ \E ok \in BOOLEAN :
          \/ ListReturn(p, ok)
          \/ PullReturn(p, ok)
          \/ BindReturn(p, ok)
          \/ CreateReturn(p, ok)
          \/ EngineStartReturn(p, ok)
          \/ InspectReturn(p, ok)
          \/ WaitPoll(p, ok)

\* every call a start() awaits settles in the end, and a running wait checks again
SpecFair == Init /\ [][Next]_vars /\ \A p \in 1..MaxStarts : WF_vars(StartStep(p))

\* the test has declared the exposed ports of its container before anything else
InitConfigured ==
    /\ builders = (DirectBuilder :>
                     [NewGenericContainer(StrApp, DefaultTag) EXCEPT !.ports = <<80, 443>>])
    /\ stratTimeout = [s \in CallerStrategies |-> StrategyOwnTimeout]
    /\ calls = <<>>
    /\ log = <<>>
    /\ images \in InitialListings
    /\ containers = <<>>
    /\ handles = <<>>
    /\ build = [pc |-> "idle", repoTag |-> None, repoTags |-> None, error |-> None,
                log |-> <<>>]
    /\ uuidDraws = <<>>
    /\ ret = NoReturn
    /\ nCalls = 0

SpecConfigured == InitConfigured /\ [][Next]_vars

\* an image of a repository on a registry that is named with its port
StrRegistryApp == <<"r", ":", "5", "/", "a", "p", "p">>
RegistryImage == [RepoTags |-> Some(<<StrRegistryApp \o StrColon \o StrOneDotO>>)]

\* the test runs a container of the registry's image, which the engine lists
InitRegistry ==
    /\ builders = (DirectBuilder :> NewGenericContainer(StrRegistryApp, StrOneDotO))
    /\ stratTimeout = [s \in CallerStrategies |-> StrategyOwnTimeout]
    /\ calls = <<>>
    /\ log = <<>>
    /\ images = <<DanglingImage, RegistryImage>>
    /\ containers = <<>>
    /\ handles = <<>>
    /\ build = [pc |-> "idle", repoTag |-> None, repoTags |-> None, error |-> None,
                log |-> <<>>]
    /\ uuidDraws = <<>>
    /\ ret = NoReturn
    /\ nCalls = 0

SpecRegistry == InitRegistry /\ [][Next]_vars

(***************************************************************************)
(* Properties.                                                              *)
(***************************************************************************)
CallIds == 1..Len(calls)
LastEvent(l) == l[Len(l)]
HasEvent(l, e) == \E i \in 1..Len(l) : l[i] = e

\* C1: a started handle exists only for a start() call whose readiness wait has
\* returned successfully, and it holds the container that call created and waited for:
\* no handle exists while the wait is pending or after it failed.
C1_HandleOnlyAfterReady ==
    /\ DOMAIN handles \subseteq CallIds
    /\ \A p \in CallIds :
          p \in DOMAIN handles =>
            /\ calls[p].pc = "resolved"
            /\ LastEvent(log[p]) = Event("return", "waitUntilReady")
            /\ IsSome(calls[p].wait)
            /\ TheValue(calls[p].wait).container = calls[p].container
            /\ handles[p].container = calls[p].container
            /\ calls[p].container \in 1..Len(containers)

\* C1 witness: a handle was returned after a wait that needed more than one check
C1_Witness ==
    \E p \in DOMAIN handles : TheValue(calls[p].wait).elapsed > 0

\* C2: a start() call in which a step failed has rejected with the error of that
\* step, the failed step is the last thing it did, it has no handle, and it does
\* nothing afterwards.
C2_Rejected ==
    \A p \in CallIds :
        /\ calls[p].pc = "rejected" =>
              /\ IsSome(calls[p].error)
              /\ LastEvent(log[p]) = Event("throw", TheValue(calls[p].error))
              /\ p \notin DOMAIN handles
        /\ \A i \in 1..Len(log[p]) :
              log[p][i].ev = "throw" => i = Len(log[p]) /\ calls[p].pc = "rejected"

C2_NothingAfterRejection ==
    \A p \in CallIds :
        calls[p].pc = "rejected" =>
            /\ calls'[p] = calls[p]
            /\ log'[p] = log[p]
            /\ p \notin DOMAIN handles'

C2_FailureAborts == []C2_Rejected /\ [][C2_NothingAfterRejection]_vars

\* C2 witness: a call rejected by a failed inspection, after the container was started
C2_Witness ==
    \E p \in CallIds :
        /\ calls[p].pc = "rejected"
        /\ calls[p].error = Some("inspect")
        /\ containers[calls[p].container].status = "running"

\* the steps of start() in the order of the contract
StepOrder == <<"fetchRepoTags", "pull", "bind", "create", "start", "inspect", "waitUntilReady">>
StepIndex(op) == CHOOSE i \in 1..Len(StepOrder) : StepOrder[i] = op
CountCalls(l, op) == Cardinality({i \in 1..Len(l) : l[i] = Event("call", op)})

\* C3: the events of one start() call are: each step is called, then settles, and
\* only then the next step of the order list, pull, bind, create, start, inspect,
\* waitUntilReady is called (pull alone may be left out); the container is inspected
\* once, and the handle exists only when every step has returned.
C3_StrictOrder ==
    \A p \in CallIds :
        LET l == log[p]
        IN  /\ Len(l) >= 1 /\ l[1] = Event("call", "fetchRepoTags")
            /\ \A i \in 1..Len(l) :
                  /\ (i % 2 = 1) => l[i].ev = "call"
                  /\ (i % 2 = 0) => l[i].ev \in {"return", "throw"} /\ l[i].op = l[i - 1].op
                  /\ (i % 2 = 1 /\ i > 1) =>
                        /\ l[i - 1].ev = "return"
                        /\ \/ StepIndex(l[i].op) = StepIndex(l[i - 1].op) + 1
                           \/ l[i - 1].op = "fetchRepoTags" /\ l[i].op = "bind"
            /\ CountCalls(l, "inspect") <= 1
            /\ p \in DOMAIN handles =>
                  /\ LastEvent(l) = Event("return", "waitUntilReady")
                  /\ CountCalls(l, "inspect") = 1

\* C3 witness: a call that went through every step, the pull included
C3_Witness ==
    \E p \in DOMAIN handles : HasEvent(log[p], Event("call", "pull"))

\* whether a reference listed to call p has the name and the tag of its target
ListedMatch(p) ==
    LET target == builders[calls[p].builder].repoTag
        listed == TheValue(calls[p].repoTags)
    IN  \E i \in 1..Len(listed) :
           listed[i].image = target.image /\ listed[i].tag = target.tag

\* C4: once the listing has returned, start() has called pull (at most once) exactly
\* when no listed reference has the name and the tag of the target; before the listing
\* has returned it has not called pull.
C4_PullIffAbsent ==
    \A p \in CallIds :
        /\ CountCalls(log[p], "pull") <= 1
        /\ IF HasEvent(log[p], Event("return", "fetchRepoTags"))
           THEN /\ IsSome(calls[p].repoTags)
                /\ HasEvent(log[p], Event("call", "pull")) <=> ~ListedMatch(p)
           ELSE ~HasEvent(log[p], Event("call", "pull"))

\* C4 witness: the target was listed and the call got to its handle without a pull
C4_Witness ==
    \E p \in DOMAIN handles :
        /\ calls[p].builder = DirectBuilder
        /\ ListedMatch(p)
        /\ ~HasEvent(log[p], Event("call", "pull"))

\* C5: when the readiness wait begins, its strategy is the one the builder holds, or,
\* when it holds none, a composite of a host-port check and an internal-port check
\* on the container of this call; the strategy has been given the builder's startup
\* timeout, and waitUntilReady gets the container, the container state and the port
\* map of this call.  The builder's startup timeout is 60 seconds unless
\* withStartupTimeout changed it.
C5_WaitBegins ==
    \A p \in CallIds :
        (calls[p].pc = "inspect" /\ calls'[p].pc = "waitUntilReady") =>
            LET b == builders[calls[p].builder]
                w == TheValue(calls'[p].wait)
            IN  /\ IF b.waitStrategy # None
                   THEN /\ w.strategy.kind = "configured"
                        /\ w.strategy.object = b.waitStrategy
                        /\ stratTimeout'[TheValue(b.waitStrategy)] = b.startupTimeout
                   ELSE /\ w.strategy.kind = "HostPortWaitStrategy"
                        /\ w.strategy.hostPortCheck # None
                        /\ w.strategy.internalPortCheck = Some([container |-> calls[p].container])
                /\ w.timeout = b.startupTimeout
                /\ w.elapsed = 0
                /\ w.container = calls[p].container
                /\ w.containerState = [inspectResult |-> TheValue(calls'[p].inspectResult)]
                /\ w.boundPorts = calls[p].boundPorts

C5_TimeoutChanges ==
    \A b \in DOMAIN builders' :
        IF b \in DOMAIN builders
        THEN builders'[b].startupTimeout # builders[b].startupTimeout =>
                ret'.op = "withStartupTimeout" /\ ret'.on = b
        ELSE builders'[b].startupTimeout = 60000

C5_WaitStrategyAndTimeout ==
    /\ \A b \in DOMAIN builders : builders[b].startupTimeout = 60000
    /\ [][C5_WaitBegins /\ C5_TimeoutChanges]_vars

\* C5 witness: a wait runs with the configured strategy and a changed timeout
C5_Witness ==
    \E p \in CallIds :
        /\ calls[p].pc = "waitUntilReady"
        /\ TheValue(calls[p].wait).strategy.kind = "configured"
        /\ TheValue(calls[p].wait).timeout = PollInterval

\* the calls stop(options) makes when nothing fails
ExpectedStopLog(options) ==
    LET resolved(f) == IF f \in DOMAIN options THEN options[f] ELSE DefaultStopOptions[f]
    IN  << StopEvent("call", "stop", [timeout |-> resolved("timeout")]),
           StopEvent("return", "stop", <<>>),
           StopEvent("call", "remove", [removeVolumes |-> resolved("removeVolumes")]),
           StopEvent("return", "remove", <<>>) >>

\* C6: stop(options) calls container.stop with the timeout and then container.remove
\* with removeVolumes, each taken from the caller's options when given there and
\* from the defaults otherwise; remove is called only when stop has returned, and the
\* stopped marker is returned only when remove has returned.
C6_StopThenRemove ==
    \A p \in DOMAIN handles :
        LET h == handles[p]
            l == h.stopLog
        IN  IF h.stopPc = "none" THEN l = <<>>
            ELSE LET full == ExpectedStopLog(TheValue(h.options))
                 IN  /\ Len(l) \in 1..4
                     /\ \A i \in 1..Len(l) :
                           \/ l[i] = full[i]
                           \/ /\ i = Len(l) /\ i % 2 = 0 /\ h.stopPc = "rejected"
                              /\ l[i] = StopEvent("throw", full[i].op, <<>>)
                     /\ h.stopPc = "stopped" <=> l = full
                     /\ h.stopPc = "stopped" => containers[h.container].status = "removed"
                     /\ Len(l) >= 3 => containers[h.container].status \in {"stopped", "removed"}

\* C6 witness: a stop that overrode one field of the defaults has returned the marker
C6_Witness ==
    \E p \in DOMAIN handles :
        /\ handles[p].stopPc = "stopped"
        /\ DOMAIN TheValue(handles[p].options) = {"removeVolumes"}

\* C7: a getMappedPort or exec call on a handle whose stop() has completed fails.
C7_NoUseAfterStop ==
    [][ \A p \in DOMAIN handles :
          ( /\ handles[p].stopPc = "stopped"
            /\ nCalls' = nCalls + 1
            /\ ret'.op \in {"getMappedPort", "exec"}
            /\ ret'.on = p )
          => ~ret'.value.ok ]_vars

\* whether the listing build() got holds the reference it built
BuildListedMatch ==
    LET target == TheValue(build.repoTag)
        listed == TheValue(build.repoTags)
    IN  \E i \in 1..Len(listed) :
           listed[i].image = target.image /\ listed[i].tag = target.tag

\* C8: build() draws two identifiers, the image name and then the tag, requests the
\* build of that reference, and asks for the listing only when the build has
\* returned; it returns a container of that reference when the listing holds it, and
\* fails, returning no container, when the listing does not hold it.
C8_BuildVerified ==
    /\ build.pc = "idle" => uuidDraws = <<>> /\ build.log = <<>>
    /\ build.pc # "idle" =>
          LET l == build.log
              target == TheValue(build.repoTag)
          IN  /\ Len(uuidDraws) = 2
              /\ target = [image |-> uuidDraws[1], tag |-> uuidDraws[2]]
              /\ Len(l) \in 1..4
              /\ l[1] = StopEvent("call", "buildImage", target)
              /\ Len(l) >= 2 => l[2].op = "buildImage" /\ l[2].ev \in {"return", "throw"}
              /\ Len(l) >= 3 => l[2].ev = "return" /\ l[3] = StopEvent("call", "fetchRepoTags", <<>>)
              /\ Len(l) >= 4 => l[4].op = "fetchRepoTags" /\ l[4].ev \in {"return", "throw"}
              /\ build.pc = "returned" <=>
                    (Len(l) = 4 /\ l[4].ev = "return" /\ BuildListedMatch)
              /\ (Len(l) = 4 /\ l[4].ev = "return" /\ ~BuildListedMatch) =>
                    build.pc = "rejected" /\ build.error = Some("Failed to build image")
              /\ build.pc = "returned" =>
                    /\ BuiltBuilder \in DOMAIN builders
                    /\ builders[BuiltBuilder].repoTag = target
    /\ build.pc # "returned" =>
          /\ \A p \in CallIds : calls[p].builder # BuiltBuilder
          /\ BuiltBuilder \in DOMAIN builders =>
                builders[BuiltBuilder] =
                    NewGenericContainer(TheValue(build.repoTag).image, TheValue(build.repoTag).tag)

\* C8 witness: the build returned, the listing does not hold the reference, build() failed
C8_Witness ==
    /\ build.pc = "rejected"
    /\ build.error = Some("Failed to build image")
    /\ ~BuildListedMatch

\* C9: getMappedPort(q) on a handle returns, for a port q its start() call requested,
\* the host port that call's port map binds to q, which is the host port the create
\* request of that call's container gives as the binding of q; for a port that call did
\* not request it fails.
C9_MappedPort ==
    [][ (nCalls' = nCalls + 1 /\ ret'.op = "getMappedPort") =>
          LET p == ret'.on
              q == ret'.arg
              request == containers[calls[p].container].request
          IN  IF \E i \in 1..Len(calls[p].ports) : calls[p].ports[i] = q
              THEN /\ ret'.value.ok
                   /\ \E i \in 1..Len(calls[p].boundPorts) :
                         calls[p].boundPorts[i] = <<q, ret'.value.value>>
                   /\ NumberToString(q) \in DOMAIN request.HostConfig.PortBindings
                   /\ request.HostConfig.PortBindings[NumberToString(q)] =
                         <<[HostPort |-> NumberToString(ret'.value.value)]>>
              ELSE ~ret'.value.ok ]_vars

\* C9 witness: getMappedPort has returned the host port of a requested port
C9_Witness == ret.op = "getMappedPort" /\ ret.value.ok

ConfigOps ==
    {"withCmd", "withName", "withEnv", "withTmpFs", "withExposedPorts", "withBindMount",
     "withStartupTimeout", "withWaitStrategy"}

OwnField(op) ==
    CASE op = "withCmd" -> "cmd"
      [] op = "withName" -> "name"
      [] op = "withEnv" -> "env"
      [] op = "withTmpFs" -> "tmpFs"
      [] op = "withExposedPorts" -> "ports"
      [] op = "withBindMount" -> "bindMounts"
      [] op = "withStartupTimeout" -> "startupTimeout"
      [] op = "withWaitStrategy" -> "waitStrategy"

\* C10: a configuration call returns the builder it was called on, leaves every field
\* but its own, and every other builder, as they were, and touches neither the engine
\* nor any start() or build() call; as long as start() has not been invoked the
\* engine holds no container.
C10_ConfigStep ==
    (nCalls' = nCalls + 1 /\ ret'.op \in ConfigOps) =>
        /\ ret'.on \in DOMAIN builders
        /\ ret'.value = ret'.on
        /\ DOMAIN builders' = DOMAIN builders
        /\ \A b \in DOMAIN builders : \A f \in BuilderFields :
              (b # ret'.on \/ f # OwnField(ret'.op)) => builders'[b][f] = builders[b][f]
        /\ UNCHANGED <<stratTimeout, calls, log, images, containers, handles, build, uuidDraws>>

C10_ConfigIsPure ==
    /\ [](calls = <<>> => containers = <<>> /\ handles = <<>> /\ log = <<>>)
    /\ [][C10_ConfigStep]_vars

\* C10 witness: a configuration call has run while a start() call is suspended
C10_Witness ==
    /\ ret.op \in ConfigOps
    /\ \E p \in CallIds : calls[p].pc = "create"

\* whether no value occurs twice in the list
PairwiseDistinct(list) ==
    \A i, j \in 1..Len(list) : i # j => list[i] # list[j]

\* C11: the exposed-port list of every builder has no duplicate internal port, and so
\* has the list a start() call hands to the port allocator.
C11_NoDuplicatePorts ==
    /\ \A b \in DOMAIN builders : PairwiseDistinct(builders[b].ports)
    /\ \A p \in CallIds : PairwiseDistinct(calls[p].ports)

\* the tag strings of the images that carry tag information, in listing order
RECURSIVE TagStrings(_)
TagStrings(listing) ==
    IF listing = <<>> THEN <<>>
    ELSE (IF Head(listing).RepoTags = None THEN <<>> ELSE Head(listing).RepoTags[1])
            \o TagStrings(Tail(listing))

\* C12: fetchRepoTags returns one reference per tag string of the images that carry
\* tag information, in listing order, each the reference its tag string names; an
\* image without tag information contributes none.
C12_FetchRepoTagsExact ==
    LET repoTags == FetchRepoTags(images)
        strings == TagStrings(images)
    IN  /\ Len(repoTags) = Len(strings)
        /\ \A i \in 1..Len(strings) :
              repoTags[i].image \o StrColon \o repoTags[i].tag = strings[i]

\* what a start() call has asked of the engine and of its container contains no stop
\* and no remove, and create and engine start at most once each; the container of a
\* call that failed after create is as the failed step found it
C13_NoCorrection ==
    \A p \in CallIds :
        /\ \A i \in 1..Len(log[p]) : log[p][i].op \notin {"stop", "remove"}
        /\ CountCalls(log[p], "create") <= 1
        /\ CountCalls(log[p], "start") <= 1
        /\ (calls[p].pc = "rejected" /\ calls[p].container # 0) =>
              /\ calls[p].error \in {Some("start"), Some("inspect"), Some("waitUntilReady")}
              /\ containers[calls[p].container].status =
                    IF calls[p].error = Some("start") THEN "created" ELSE "running"

\* the step in which start() fails after create changes nothing in the engine
C13_FailureLeavesEngine ==
    \A p \in CallIds :
        (calls[p].pc \in {"start", "inspect", "waitUntilReady"} /\ calls'[p].pc = "rejected")
            => containers' = containers /\ images' = images

\* C13: start() never stops or removes the container and never creates or starts it
\* twice; when engine start, inspect or the readiness wait fails, the container stays
\* in the engine as it was (created, or created and running).
C13_NoRollback == []C13_NoCorrection /\ [][C13_FailureLeavesEngine]_vars

\* C13 witness: the readiness wait timed out and the container is still running
C13_Witness ==
    \E p \in CallIds :
        /\ calls[p].pc = "rejected"
        /\ calls[p].error = Some("waitUntilReady")
        /\ TheValue(calls[p].wait).elapsed > 0
        /\ containers[calls[p].container].status = "running"

\* C14: a start() call binds the ports, passes the create options, and uses the wait
\* strategy and the startup timeout that its builder held when start() was invoked,
\* whatever configuration calls run while it is suspended.
C14_FrozenAtInvocation ==
    \A p \in CallIds :
        LET c == calls[p]
            request == TheValue(c.request)
            wait == TheValue(c.wait)
        IN  /\ HasEvent(log[p], Event("call", "bind")) => c.ports = c.invoked.ports
            /\ IsSome(c.request) =>
                  /\ request.name = c.invoked.name
                  /\ request.Cmd = c.invoked.cmd
                  /\ Len(request.Env) = Len(c.invoked.env)
                  /\ Len(request.HostConfig.Binds) = Len(c.invoked.bindMounts)
                  /\ request.HostConfig.Tmpfs = c.invoked.tmpFs
            /\ IsSome(c.wait) =>
                  /\ wait.timeout = c.invoked.startupTimeout
                  /\ (wait.strategy.kind = "configured") <=> IsSome(c.invoked.waitStrategy)
                  /\ wait.strategy.object = c.invoked.waitStrategy

EngineCalls == {"fetchRepoTags", "pull", "create", "start", "inspect"}
BuildCalls == {"buildImage", "fetchRepoTags"}

\* C16: a start() call invokes each of listing, pull, create, engine start and inspect
\* at most once, and a build() call each of buildImage and listing at most once; when
\* one of them fails nothing is invoked after it and the call has failed with the
\* error of that very invocation.
C16_NoRetry ==
    /\ \A p \in CallIds :
          /\ \A op \in EngineCalls : CountCalls(log[p], op) <= 1
          /\ \A i \in 1..Len(log[p]) :
                log[p][i].ev = "throw" =>
                    /\ i = Len(log[p])
                    /\ calls[p].pc = "rejected"
                    /\ calls[p].error = Some(log[p][i].op)
    /\ \A op \in BuildCalls :
          Cardinality({i \in 1..Len(build.log) :
                          build.log[i].ev = "call" /\ build.log[i].op = op}) <= 1
    /\ \A i \in 1..Len(build.log) :
          build.log[i].ev = "throw" =>
              /\ i = Len(build.log)
              /\ build.pc = "rejected"
              /\ build.error = Some(build.log[i].op)
              /\ BuiltBuilder \notin HeldBuilders

\* C16 witness: a build() failed by its image build and a start() failed by its pull
C16_Witness ==
    /\ build.pc = "rejected"
    /\ build.error = Some("buildImage")
    /\ \E p \in CallIds : calls[p].pc = "rejected" /\ calls[p].error = Some("pull")

\* C17: in the create request of every start() call, the keys of ExposedPorts and the
\* keys of PortBindings are both the internal ports of the call's port map, and the
\* PortBindings entry of each internal port is a list of one host port, the one the
\* port map binds to it; the engine's container holds that request.
C17_PortsFromOneMap ==
    \A p \in CallIds :
        IsSome(calls[p].request) =>
            LET request == TheValue(calls[p].request)
                boundPorts == calls[p].boundPorts
                keys == {NumberToString(boundPorts[i][1]) : i \in 1..Len(boundPorts)}
            IN  /\ DOMAIN request.ExposedPorts = keys
                /\ DOMAIN request.HostConfig.PortBindings = keys
                /\ \A i \in 1..Len(boundPorts) :
                      request.HostConfig.PortBindings[NumberToString(boundPorts[i][1])] =
                          <<[HostPort |-> NumberToString(boundPorts[i][2])]>>
                /\ calls[p].container # 0 =>
                      containers[calls[p].container].request = request

\* C17 witness: the engine holds a container created with two published ports
C17_Witness ==
    \E c \in 1..Len(containers) :
        Cardinality(DOMAIN containers[c].request.HostConfig.PortBindings) = 2

====
